---- MODULE Spec2Model ----
(***************************************************************************)
(* Model of src/integrations/claudia/src-tauri/src/ultramcp.rs:            *)
(* the UltraMCPExecutor (execute_command, execute_streaming_command), the  *)
(* child process and its two pipes as the executor's environment, and the  *)
(* Tauri command handlers that call the executor.                          *)
(*                                                                         *)
(* Text is a sequence of chunks.  A chunk is a piece of text (a character, *)
(* a fixed message of the program, an OS error text) or BAD, a byte        *)
(* sequence that is not valid UTF-8.                                       *)
(***************************************************************************)
EXTENDS Integers, Sequences, FiniteSets, TLC

\* ------------------------------------------------------------ bounds
\* Most chunks one child writes to its stdout / to its stderr.
MaxOut == 4
MaxErr == 2
\* Chunks a pipe holds before the writer blocks.
PipeCap == 1
\* The same for each of two children running at once.
MaxOutConc == 1
MaxErrConc == 1
\* The same for the child of a command handler.
MaxOutH == 2
MaxErrH == 1
\* The last second the clock reaches.
MaxClock == 1

\* ------------------------------------------------------------ text
NL == "\n"
BAD == "<invalid-utf8>"
REPL == "U+FFFD"

\* What a child may write on stdout.
OutBytes == {"a", NL, BAD}

\* The text of the io::Error of a failed spawn or wait.
OsErrors == {"No such file or directory (os error 2)"}

\* ultramcp.rs:167 and :192, the prefix of format!("Failed to spawn ...: {}", e)
SpawnPrefix(k) ==
    IF k = "command" THEN "Failed to spawn command: "
                     ELSE "Failed to spawn streaming command: "

\* ultramcp.rs:172 and :206
WaitPrefix(k) ==
    IF k = "command" THEN "Failed to execute command: "
                     ELSE "Failed to complete streaming command: "

\* Variant of SpawnMsg with the text of the wait failure copied over.
SpawnMsgCopied(k, e) == <<WaitPrefix(k), e>>

SpawnMsg(k, e) == <<SpawnPrefix(k), e>>
WaitMsg(k, e) == <<WaitPrefix(k), e>>

\* A child is free to print any text on stderr, the executor's own
\* diagnostics included.
ErrBytes == {BAD, SpawnPrefix("command")} \cup OsErrors

\* String::from_utf8_lossy(..).to_string(): invalid sequences are replaced.
Lossy(bytes) == [k \in 1..Len(bytes) |-> IF bytes[k] = BAD THEN REPL ELSE bytes[k]]

\* ultramcp.rs:209
Ack == <<"Command completed successfully">>

Ok(v) == [tag |-> "Ok", val |-> v]
Err(v) == [tag |-> "Err", val |-> v]

ExitCodes == {0, 1}
\* The status of a child killed by SIGPIPE (not success).
SigPipeStatus == 128 + 13
\* ExitStatus::success()
Success(code) == code = 0

\* ------------------------------------------------------------ state
\* Invocation slots: one call of execute_command / execute_streaming_command
\* runs in a slot.
Invs == {1, 2}

Kinds == {"command", "streaming"}
Commands == {<<"health-check">>, <<"local-chat">>}

VARIABLES
    base_path,  \* UltraMCPExecutor.base_path
    kind,       \* per slot: "none", "command" or "streaming"
    argv,       \* per slot: the command line of the child
    pc,         \* per slot: where the executor's future is
    path,       \* per slot: which return statement produced the result
    trace,      \* per slot: the callbacks made and the result returned, in order
    lineBuf,    \* per slot: bytes of the line being read (BufReader / Lines)
    outBuf,     \* per slot: stdout collected by wait_with_output
    errBuf,     \* per slot: stderr collected by wait_with_output
    outReader,  \* per slot: the executor's read end of stdout
    eofEarly,   \* per slot: the read loop saw end-of-stream while the child ran
    spawned,    \* per slot: processes spawned so far
    waits,      \* per slot: calls of wait_with_output so far
    cstate,     \* per slot: the child, "none", "running" or "exited"
    ccode,      \* per slot: the child's exit status
    coutOpen,   \* per slot: the child's write end of stdout is open
    outAll,     \* per slot: everything the child wrote to stdout
    errAll,     \* per slot: everything the child wrote to stderr
    outPipe,    \* per slot: stdout bytes written and not yet read
    errPipe,    \* per slot: stderr bytes written and not yet read
    hpc,        \* per slot: where the command handler running in it is
    hname,      \* per slot: the command handler called
    hin,        \* per slot: its arguments
    hret,       \* per slot: the results it returned, in order
    execCalls,  \* per slot: calls of the executor the handler made
    now         \* SystemTime::now() in whole seconds since UNIX_EPOCH

execVars == <<kind, argv, pc, path, trace, lineBuf, outBuf, errBuf, outReader, eofEarly, spawned, waits>>
childVars == <<cstate, ccode, coutOpen, outAll, errAll>>
pipeVars == <<outPipe, errPipe>>
hVars == <<hpc, hname, hin, hret, execCalls, now>>
vars == <<base_path, execVars, childVars, pipeVars, hVars>>

\* UltraMCPExecutor::new
NewBasePath == "/root/ultramcp"

LineEv(l) == [ev |-> "line", val |-> l]
RetEv(r) == [ev |-> "ret", val |-> r]

IsLine(e) == e.ev = "line"
IsRet(e) == e.ev = "ret"

\* The values passed to the callback so far, in order.
Delivered(i) == [k \in 1..Len(SelectSeq(trace[i], IsLine)) |-> SelectSeq(trace[i], IsLine)[k].val]
\* The results returned so far, in order.
Results(i) == [k \in 1..Len(SelectSeq(trace[i], IsRet)) |-> SelectSeq(trace[i], IsRet)[k].val]

ExecInit ==
    /\ base_path = NewBasePath
    /\ kind = [i \in Invs |-> "none"]
    /\ argv = [i \in Invs |-> <<>>]
    /\ pc = [i \in Invs |-> "idle"]
    /\ path = [i \in Invs |-> "none"]
    /\ trace = [i \in Invs |-> <<>>]
    /\ lineBuf = [i \in Invs |-> <<>>]
    /\ outBuf = [i \in Invs |-> <<>>]
    /\ errBuf = [i \in Invs |-> <<>>]
    /\ outReader = [i \in Invs |-> "none"]
    /\ eofEarly = [i \in Invs |-> FALSE]
    /\ spawned = [i \in Invs |-> 0]
    /\ waits = [i \in Invs |-> 0]
    /\ cstate = [i \in Invs |-> "none"]
    /\ ccode = [i \in Invs |-> 0]
    /\ coutOpen = [i \in Invs |-> FALSE]
    /\ outAll = [i \in Invs |-> <<>>]
    /\ errAll = [i \in Invs |-> <<>>]
    /\ outPipe = [i \in Invs |-> <<>>]
    /\ errPipe = [i \in Invs |-> <<>>]
    /\ hpc = [i \in Invs |-> "idle"]
    /\ hname = [i \in Invs |-> "none"]
    /\ hin = [i \in Invs |-> <<>>]
    /\ hret = [i \in Invs |-> <<>>]
    /\ execCalls = [i \in Invs |-> 0]
    /\ now = 0

\* ------------------------------------------------------------ executor
\* AsyncCommand::new("make").arg(command).args(args).current_dir(base_path)
CommandLine(c, a) == <<<<"make">>, c>> \o a

\* A call of execute_command (k = "command") or execute_streaming_command
\* (k = "streaming"): the command is built, nothing has run yet.
Invoke(i, k, c, a) ==
    /\ pc[i] = "idle"
    /\ kind' = [kind EXCEPT ![i] = k]
    /\ argv' = [argv EXCEPT ![i] = CommandLine(c, a)]
    /\ pc' = [pc EXCEPT ![i] = "spawn"]
    /\ UNCHANGED <<base_path, path, trace, lineBuf, outBuf, errBuf, outReader, eofEarly, spawned, waits, childVars, pipeVars>>

\* A caller other than the command handlers.
DirectCall(i, k, c, a) ==
    /\ hpc[i] = "idle"
    /\ Invoke(i, k, c, a)
    /\ UNCHANGED hVars

\* .spawn() succeeds: the child runs with both pipes open.  execute_command
\* goes on to wait_with_output, execute_streaming_command to its read loop.
SpawnOk(i) ==
    /\ pc[i] = "spawn"
    /\ pc' = [pc EXCEPT ![i] = IF kind[i] = "command" THEN "collect" ELSE "reading"]
    /\ spawned' = [spawned EXCEPT ![i] = @ + 1]
    /\ cstate' = [cstate EXCEPT ![i] = "running"]
    /\ coutOpen' = [coutOpen EXCEPT ![i] = TRUE]
    /\ outReader' = [outReader EXCEPT ![i] = "open"]
    /\ waits' = [waits EXCEPT ![i] = IF kind[i] = "command" THEN @ + 1 ELSE @]
    /\ UNCHANGED <<base_path, hVars, kind, argv, path, trace, lineBuf, outBuf, errBuf, eofEarly, ccode, outAll, errAll, pipeVars>>

\* .spawn() fails: map_err(..)? returns at once.
SpawnFail(i, e) ==
    /\ pc[i] = "spawn"
    /\ trace' = [trace EXCEPT ![i] = Append(@, RetEv(Err(SpawnMsg(kind[i], e))))]
    /\ path' = [path EXCEPT ![i] = "spawn_failed"]
    /\ pc' = [pc EXCEPT ![i] = "done"]
    /\ UNCHANGED <<base_path, hVars, kind, argv, lineBuf, outBuf, errBuf, outReader, eofEarly, spawned, waits, childVars, pipeVars>>

\* ------------------------------------------------------------ child
\* A child is followed until its invocation has returned: what it does after
\* that (it is not killed when a wait fails) reaches nobody.
\* The child writes one chunk to stdout; it blocks while the pipe is full.
ChildWriteStdout(i, t, maxOut) ==
    /\ cstate[i] = "running"
    /\ coutOpen[i]
    /\ outReader[i] = "open"
    /\ Len(outAll[i]) < maxOut
    /\ Len(outPipe[i]) < PipeCap
    /\ outAll' = [outAll EXCEPT ![i] = Append(@, t)]
    /\ outPipe' = [outPipe EXCEPT ![i] = Append(@, t)]
    /\ UNCHANGED <<base_path, hVars, execVars, cstate, ccode, coutOpen, errAll, errPipe>>

\* The child writes one chunk to stderr; it blocks while the pipe is full.
ChildWriteStderr(i, t, maxErr) ==
    /\ cstate[i] = "running"
    /\ pc[i] # "done"
    /\ Len(errAll[i]) < maxErr
    /\ Len(errPipe[i]) < PipeCap
    /\ errAll' = [errAll EXCEPT ![i] = Append(@, t)]
    /\ errPipe' = [errPipe EXCEPT ![i] = Append(@, t)]
    /\ UNCHANGED <<base_path, hVars, execVars, cstate, ccode, coutOpen, outAll, outPipe>>

\* The child closes its stdout and keeps running.
ChildCloseStdout(i) ==
    /\ cstate[i] = "running"
    /\ pc[i] # "done"
    /\ coutOpen[i]
    /\ coutOpen' = [coutOpen EXCEPT ![i] = FALSE]
    /\ UNCHANGED <<base_path, hVars, execVars, cstate, ccode, outAll, errAll, pipeVars>>

\* The child exits; its ends of the pipes close with it.
ChildExit(i, code) ==
    /\ cstate[i] = "running"
    /\ pc[i] # "done"
    /\ cstate' = [cstate EXCEPT ![i] = "exited"]
    /\ ccode' = [ccode EXCEPT ![i] = code]
    /\ coutOpen' = [coutOpen EXCEPT ![i] = FALSE]
    /\ UNCHANGED <<base_path, hVars, execVars, outAll, errAll, pipeVars>>

\* The child writes to a stdout whose read end the executor has dropped and
\* is killed by SIGPIPE.  (A child that ignores the signal sees the write
\* fail and gives up its stdout: ChildCloseStdout.)
ChildSigpipe(i, maxOut) ==
    /\ cstate[i] = "running"
    /\ coutOpen[i]
    /\ outReader[i] = "closed"
    /\ pc[i] # "done"
    /\ Len(outAll[i]) < maxOut
    /\ cstate' = [cstate EXCEPT ![i] = "exited"]
    /\ ccode' = [ccode EXCEPT ![i] = SigPipeStatus]
    /\ coutOpen' = [coutOpen EXCEPT ![i] = FALSE]
    /\ UNCHANGED <<base_path, hVars, execVars, outAll, errAll, pipeVars>>

\* ------------------------------------------------------------ execute_command
\* wait_with_output reads stdout to its end ...
CollectStdout(i) ==
    /\ pc[i] = "collect"
    /\ outPipe[i] # <<>>
    /\ outBuf' = [outBuf EXCEPT ![i] = Append(@, Head(outPipe[i]))]
    /\ outPipe' = [outPipe EXCEPT ![i] = Tail(@)]
    /\ UNCHANGED <<base_path, hVars, kind, argv, pc, path, trace, lineBuf, errBuf, outReader, eofEarly, spawned, waits, childVars, errPipe>>

\* ... and stderr to its end, both while it waits for the child.  In a
\* streaming call stdout was taken before, and only stderr is read.
CollectStderr(i) ==
    /\ pc[i] \in {"collect", "waiting"}
    /\ errPipe[i] # <<>>
    /\ errBuf' = [errBuf EXCEPT ![i] = Append(@, Head(errPipe[i]))]
    /\ errPipe' = [errPipe EXCEPT ![i] = Tail(@)]
    /\ UNCHANGED <<base_path, hVars, kind, argv, pc, path, trace, lineBuf, outBuf, outReader, eofEarly, spawned, waits, childVars, outPipe>>

\* Variant of CommandResult that picks the wrong stream for each status.
CommandResultSwapped(code, out, err) ==
    IF Success(code) THEN Ok(Lossy(err)) ELSE Err(Lossy(out))

\* ultramcp.rs:174-178
CommandResult(code, out, err) ==
    IF Success(code) THEN Ok(Lossy(out)) ELSE Err(Lossy(err))

\* wait_with_output completes: the child has exited and both pipes are at
\* their end.
CommandReturn(i) ==
    /\ pc[i] = "collect"
    /\ cstate[i] = "exited"
    /\ outPipe[i] = <<>>
    /\ errPipe[i] = <<>>
    /\ trace' = [trace EXCEPT ![i] = Append(@, RetEv(CommandResult(ccode[i], outBuf[i], errBuf[i])))]
    /\ path' = [path EXCEPT ![i] = "exit"]
    /\ pc' = [pc EXCEPT ![i] = "done"]
    /\ outReader' = [outReader EXCEPT ![i] = "closed"]
    /\ UNCHANGED <<base_path, hVars, kind, argv, lineBuf, outBuf, errBuf, eofEarly, spawned, waits, childVars, pipeVars>>

\* wait_with_output fails: map_err(..)? returns; the pipes are dropped.
WaitFail(i, e) ==
    /\ pc[i] \in {"collect", "waiting"}
    /\ trace' = [trace EXCEPT ![i] = Append(@, RetEv(Err(WaitMsg(kind[i], e))))]
    /\ path' = [path EXCEPT ![i] = "wait_failed"]
    /\ pc' = [pc EXCEPT ![i] = "done"]
    /\ outReader' = [outReader EXCEPT ![i] = "closed"]
    /\ outPipe' = [outPipe EXCEPT ![i] = <<>>]
    /\ errPipe' = [errPipe EXCEPT ![i] = <<>>]
    /\ UNCHANGED <<base_path, hVars, kind, argv, lineBuf, outBuf, errBuf, eofEarly, spawned, waits, childVars>>

\* ------------------------------------------------------------ execute_streaming_command
\* A line whose bytes are not valid UTF-8 makes next_line return Err.
ValidUtf8(bytes) == \A k \in 1..Len(bytes) : bytes[k] # BAD

\* The loop of ultramcp.rs:198-200 ends: `lines` goes out of scope and the
\* read end of stdout is dropped with whatever was not read; wait_with_output
\* is called next.
EndLoop(i) ==
    /\ pc' = [pc EXCEPT ![i] = "waiting"]
    /\ outReader' = [outReader EXCEPT ![i] = "closed"]
    /\ outPipe' = [outPipe EXCEPT ![i] = <<>>]
    /\ lineBuf' = [lineBuf EXCEPT ![i] = <<>>]
    /\ waits' = [waits EXCEPT ![i] = @ + 1]

\* Variant of GotLine in which the callbacks of all invocations share one
\* sink: the line of slot i reaches the other slot.
GotLineMixed(i, bytes, rest) ==
    IF ValidUtf8(bytes)
    THEN /\ trace' = [trace EXCEPT ![3 - i] = Append(@, LineEv(bytes))]
         /\ lineBuf' = [lineBuf EXCEPT ![i] = <<>>]
         /\ outPipe' = [outPipe EXCEPT ![i] = rest]
         /\ UNCHANGED <<pc, outReader, waits>>
    ELSE /\ EndLoop(i)
         /\ UNCHANGED trace

\* next_line() has a whole line `bytes`: Ok(Some(line)) runs the callback,
\* Err(_) becomes None through unwrap_or(None) and ends the loop.
GotLine(i, bytes, rest) ==
    IF ValidUtf8(bytes)
    THEN /\ trace' = [trace EXCEPT ![i] = Append(@, LineEv(bytes))]
         /\ lineBuf' = [lineBuf EXCEPT ![i] = <<>>]
         /\ outPipe' = [outPipe EXCEPT ![i] = rest]
         /\ UNCHANGED <<pc, outReader, waits>>
    ELSE /\ EndLoop(i)
         /\ UNCHANGED trace

\* next_line() takes one chunk from the pipe: a newline completes the line
\* (the newline is not part of it), anything else is kept for the line.
StreamRead(i) ==
    /\ pc[i] = "reading"
    /\ outPipe[i] # <<>>
    /\ IF Head(outPipe[i]) = NL
       THEN GotLine(i, lineBuf[i], Tail(outPipe[i]))
       ELSE /\ lineBuf' = [lineBuf EXCEPT ![i] = Append(@, Head(outPipe[i]))]
            /\ outPipe' = [outPipe EXCEPT ![i] = Tail(@)]
            /\ UNCHANGED <<trace, pc, outReader, waits>>
    /\ UNCHANGED <<base_path, hVars, kind, argv, path, outBuf, errBuf, eofEarly, spawned, childVars, errPipe>>

\* Variant of StreamEof that returns the acknowledgement from the end of the
\* stream, without waiting for the child.
StreamEofReturns(i) ==
    /\ pc[i] = "reading"
    /\ outPipe[i] = <<>>
    /\ ~coutOpen[i]
    /\ IF lineBuf[i] # <<>>
       THEN /\ GotLine(i, lineBuf[i], <<>>)
            /\ eofEarly' = [eofEarly EXCEPT ![i] = ~ValidUtf8(lineBuf[i]) /\ cstate[i] = "running"]
            /\ UNCHANGED path
       ELSE /\ trace' = [trace EXCEPT ![i] = Append(@, RetEv(Ok(Ack)))]
            /\ path' = [path EXCEPT ![i] = "exit"]
            /\ pc' = [pc EXCEPT ![i] = "done"]
            /\ outReader' = [outReader EXCEPT ![i] = "closed"]
            /\ eofEarly' = [eofEarly EXCEPT ![i] = cstate[i] = "running"]
            /\ UNCHANGED <<lineBuf, outPipe, waits>>
    /\ UNCHANGED <<base_path, hVars, kind, argv, outBuf, errBuf, spawned, childVars, errPipe>>

\* next_line() at the end of the stream: bytes left without a newline are
\* the last line; with nothing left it returns Ok(None) and the loop ends.
StreamEof(i) ==
    /\ pc[i] = "reading"
    /\ outPipe[i] = <<>>
    /\ ~coutOpen[i]
    /\ IF lineBuf[i] # <<>>
       THEN /\ GotLine(i, lineBuf[i], <<>>)
            /\ eofEarly' = [eofEarly EXCEPT ![i] = ~ValidUtf8(lineBuf[i]) /\ cstate[i] = "running"]
       ELSE /\ EndLoop(i)
            /\ eofEarly' = [eofEarly EXCEPT ![i] = cstate[i] = "running"]
            /\ UNCHANGED trace
    /\ UNCHANGED <<base_path, hVars, kind, argv, path, outBuf, errBuf, spawned, childVars, errPipe>>

\* Variant of StreamingResult that returns the captured stdout of `output`
\* (empty, stdout was taken for the read loop) instead of the acknowledgement.
StreamingResultText(code, err) ==
    IF Success(code) THEN Ok(Lossy(<<>>)) ELSE Err(Lossy(err))

\* ultramcp.rs:208-212
StreamingResult(code, err) ==
    IF Success(code) THEN Ok(Ack) ELSE Err(Lossy(err))

\* Variant of StreamingReturn in which the result is returned as soon as the
\* child has exited, while the read loop is left running.
StreamingReturnEarly(i) ==
    /\ pc[i] = "reading"
    /\ cstate[i] = "exited"
    /\ Results(i) = <<>>
    /\ trace' = [trace EXCEPT ![i] = Append(@, RetEv(IF Success(ccode[i]) THEN Ok(Ack) ELSE Err(Lossy(errBuf[i]))))]
    /\ path' = [path EXCEPT ![i] = "exit"]
    /\ UNCHANGED <<base_path, hVars, kind, argv, pc, lineBuf, outBuf, errBuf, outReader, eofEarly, spawned, waits, childVars, pipeVars>>

\* wait_with_output completes: the child has exited and stderr is at its end.
StreamingReturn(i) ==
    /\ pc[i] = "waiting"
    /\ cstate[i] = "exited"
    /\ errPipe[i] = <<>>
    /\ trace' = [trace EXCEPT ![i] = Append(@, RetEv(StreamingResult(ccode[i], errBuf[i])))]
    /\ path' = [path EXCEPT ![i] = "exit"]
    /\ pc' = [pc EXCEPT ![i] = "done"]
    /\ UNCHANGED <<base_path, hVars, kind, argv, lineBuf, outBuf, errBuf, outReader, eofEarly, spawned, waits, childVars, pipeVars>>

\* ------------------------------------------------------------ specification
Init == ExecInit

\* The child of slot i.
Child(i, maxOut, maxErr, outs, errs) ==
    \/ \E t \in outs : ChildWriteStdout(i, t, maxOut)
    \/ \E t \in errs : ChildWriteStderr(i, t, maxErr)
    \/ ChildCloseStdout(i)
    \/ \E code \in ExitCodes : ChildExit(i, code)

\* The steps of execute_command in slot i (the spawn and the failed wait are
\* those of execute_streaming_command too).
CommandExec(i) ==
    \/ SpawnOk(i)
    \/ \E e \in OsErrors : SpawnFail(i, e)
    \/ CollectStdout(i)
    \/ CollectStderr(i)
    \/ CommandReturn(i)
    \/ \E e \in OsErrors : WaitFail(i, e)

\* The steps of execute_streaming_command alone.
StreamingExec(i) ==
    \/ StreamRead(i)
    \/ StreamEof(i)
    \/ StreamingReturn(i)

Exec(i, maxOut, maxErr, outs, errs) ==
    \/ Child(i, maxOut, maxErr, outs, errs)
    \/ CommandExec(i)
    \/ StreamingExec(i)

Next ==
    \/ \E k \in Kinds, c \in Commands : DirectCall(1, k, c, <<>>)
    \/ Exec(1, MaxOut, MaxErr, OutBytes, ErrBytes)
    \/ ChildSigpipe(1, MaxOut)

Spec == Init /\ [][Next]_vars

\* Two invocations at once.  Their children write valid text only, so no read
\* loop ends before the end of the stream and no child meets a dropped read end.
NextConc ==
    \/ DirectCall(1, "streaming", <<"local-chat">>, <<<<"TEXT=", "hello">>>>)
    \/ \E k \in Kinds : DirectCall(2, k, <<"local-chat">>, <<<<"TEXT=", "hello">>>>)
    \/ \E i \in Invs : Exec(i, MaxOutConc, MaxErrConc, {"a", NL}, {BAD})

SpecConc == Init /\ [][NextConc]_vars

\* ------------------------------------------------------------ command handlers
\* The handlers that call executor.execute_command(..).await?
ExecutorHandlers ==
    {"start_cod_debate", "get_local_models", "get_local_model_status",
     "start_local_model", "run_local_chat", "get_system_health"}
\* The handlers whose body never touches its `executor` argument.
DirectHandlers ==
    {"stop_local_model", "get_debate_results", "get_cost_analytics", "optimize_costs"}

\* The arguments a handler is called with: start_cod_debate gets
\* <<config.topic, config.mode>>, the others their one string (or nothing).
HandlerInputs(name) ==
    CASE name = "start_cod_debate" -> {<<"topic", "local">>, <<"topic", "hybrid">>}
      [] name \in {"start_local_model", "stop_local_model"} -> {<<"qwen-25-14b">>}
      [] name = "get_debate_results" -> {<<"debate_0">>}
      [] name = "get_cost_analytics" -> {<<"7d">>}
      [] name = "run_local_chat" -> {<<"hello">>}
      [] name = "optimize_costs" ->
            {<<"prefer_local">>, <<"batch_requests">>, <<"cache_results">>, <<"anything else">>}
      [] OTHER -> {<<>>}

\* The (command, args) each handler passes to execute_command.
HandlerCommand(name, input) ==
    CASE name = "start_cod_debate" ->
            [command |-> <<"cod-", input[2]>>, args |-> << <<"TOPIC=", input[1]>> >>]
      [] name = "get_local_models" -> [command |-> <<"local-models">>, args |-> <<>>]
      [] name = "get_local_model_status" -> [command |-> <<"local-status">>, args |-> <<>>]
      [] name = "start_local_model" -> [command |-> <<"local-status">>, args |-> <<>>]
      [] name = "run_local_chat" ->
            [command |-> <<"local-chat">>, args |-> << <<"TEXT=", input[1]>> >>]
      [] name = "get_system_health" -> [command |-> <<"health-check">>, args |-> <<>>]

\* format!("debate_{}", SystemTime::now().duration_since(UNIX_EPOCH).unwrap().as_secs())
DebateId(t) == <<"debate_", ToString(t)>>

\* What each handler returns once execute_command has returned Ok(output),
\* read at clock second t.
start_cod_debate(config, output, t) == Ok(DebateId(t))
\* Variant of get_local_models whose parser rejects an empty output.
get_local_models_parsing(output) ==
    IF output = <<>> THEN Err(<<"no models in output">>)
    ELSE Ok(<<"qwen-25-14b", "llama-31-8b">>)

\* parse_local_models_output: the two sample models, whatever the output
get_local_models(output) == Ok(<<"qwen-25-14b", "llama-31-8b">>)
\* parse_system_metrics: the sample metrics, whatever the output
get_local_model_status(output) == Ok(<<"SystemMetrics { total_models: 5, active_models: 4, .. }">>)
start_local_model(model_id, output) == Ok(<<"Model ", model_id, " start initiated">>)
run_local_chat(message, output) == Ok(output)
\* parse_health_output: the fixed map, whatever the output
get_system_health(output) == Ok(<<"overall=healthy", "local_models=5 active", "ollama_service=running", "disk_space=sufficient", "memory_usage=normal">>)

\* What each handler without an executor call returns.
stop_local_model(model_id) == Ok(<<"Model ", model_id, " stop initiated">>)
\* load_debate_results: Some(sample result) with the id and the timestamp
get_debate_results(debate_id, t) == Ok(<<"DebateResult", debate_id, "completed", ToString(t)>>)
\* generate_cost_analytics: the sample analytics
get_cost_analytics(time_range) == Ok(<<"CostAnalytics { total: 0.615, savings: 17.835, .. }">>)
optimize_costs(optimization_type) ==
    CASE optimization_type = "prefer_local" -> Ok(<<"Local model preference enabled">>)
      [] optimization_type = "batch_requests" -> Ok(<<"Request batching enabled">>)
      [] optimization_type = "cache_results" -> Ok(<<"Result caching enabled">>)
      [] OTHER -> Err(<<"Unknown optimization type">>)

HandlerValue(name, input, output, t) ==
    CASE name = "start_cod_debate" -> start_cod_debate(input, output, t)
      [] name = "get_local_models" -> get_local_models(output)
      [] name = "get_local_model_status" -> get_local_model_status(output)
      [] name = "start_local_model" -> start_local_model(input[1], output)
      [] name = "run_local_chat" -> run_local_chat(input[1], output)
      [] name = "get_system_health" -> get_system_health(output)

DirectValue(name, input, t) ==
    CASE name = "stop_local_model" -> stop_local_model(input[1])
      [] name = "get_debate_results" -> get_debate_results(input[1], t)
      [] name = "get_cost_analytics" -> get_cost_analytics(input[1])
      [] name = "optimize_costs" -> optimize_costs(input[1])

\* A handler of ExecutorHandlers is called: it builds its arguments and calls
\* execute_command, then awaits it.
HandlerCall(h, name, input) ==
    /\ hpc[h] = "idle"
    /\ name \in ExecutorHandlers
    /\ hname' = [hname EXCEPT ![h] = name]
    /\ hin' = [hin EXCEPT ![h] = input]
    /\ hpc' = [hpc EXCEPT ![h] = "awaiting"]
    /\ execCalls' = [execCalls EXCEPT ![h] = @ + 1]
    /\ Invoke(h, "command", HandlerCommand(name, input).command, HandlerCommand(name, input).args)
    /\ UNCHANGED <<hret, now>>

\* Variant of HandlerReturn that calls execute_command once more after an Err.
HandlerReturnRetry(h) ==
    /\ hpc[h] = "awaiting"
    /\ pc[h] = "done"
    /\ LET r == Results(h)[Len(Results(h))]
       IN  IF r.tag = "Err" /\ execCalls[h] < 2
           THEN /\ execCalls' = [execCalls EXCEPT ![h] = @ + 1]
                /\ pc' = [pc EXCEPT ![h] = "spawn"]
                /\ path' = [path EXCEPT ![h] = "none"]
                /\ trace' = [trace EXCEPT ![h] = <<>>]
                /\ outBuf' = [outBuf EXCEPT ![h] = <<>>]
                /\ errBuf' = [errBuf EXCEPT ![h] = <<>>]
                /\ outReader' = [outReader EXCEPT ![h] = "none"]
                /\ cstate' = [cstate EXCEPT ![h] = "none"]
                /\ ccode' = [ccode EXCEPT ![h] = 0]
                /\ coutOpen' = [coutOpen EXCEPT ![h] = FALSE]
                /\ outAll' = [outAll EXCEPT ![h] = <<>>]
                /\ errAll' = [errAll EXCEPT ![h] = <<>>]
                /\ outPipe' = [outPipe EXCEPT ![h] = <<>>]
                /\ errPipe' = [errPipe EXCEPT ![h] = <<>>]
                /\ UNCHANGED <<base_path, kind, argv, lineBuf, eofEarly, spawned, waits, hpc, hname, hin, hret, now>>
           ELSE /\ hret' = [hret EXCEPT ![h] =
                        Append(@, IF r.tag = "Err" THEN Err(r.val)
                                  ELSE HandlerValue(hname[h], hin[h], r.val, now))]
                /\ hpc' = [hpc EXCEPT ![h] = "done"]
                /\ UNCHANGED <<base_path, execVars, childVars, pipeVars, hname, hin, execCalls, now>>

\* `.await?` and the rest of the handler: an Err returns from the handler as
\* it is, an Ok(output) goes on to the handler's own value.
HandlerReturn(h) ==
    /\ hpc[h] = "awaiting"
    /\ pc[h] = "done"
    /\ LET r == Results(h)[Len(Results(h))]
       IN  hret' = [hret EXCEPT ![h] =
                Append(@, IF r.tag = "Err" THEN Err(r.val)
                          ELSE HandlerValue(hname[h], hin[h], r.val, now))]
    /\ hpc' = [hpc EXCEPT ![h] = "done"]
    /\ UNCHANGED <<base_path, execVars, childVars, pipeVars, hname, hin, execCalls, now>>

\* A handler of DirectHandlers is called and returns: nothing in it suspends.
HandlerDirect(h, name, input) ==
    /\ hpc[h] = "idle"
    /\ pc[h] = "idle"
    /\ name \in DirectHandlers
    /\ hname' = [hname EXCEPT ![h] = name]
    /\ hin' = [hin EXCEPT ![h] = input]
    /\ hret' = [hret EXCEPT ![h] = Append(@, DirectValue(name, input, now))]
    /\ hpc' = [hpc EXCEPT ![h] = "done"]
    /\ UNCHANGED <<base_path, execVars, childVars, pipeVars, execCalls, now>>

\* A second of the system clock passes.
Tick ==
    /\ now < MaxClock
    /\ now' = now + 1
    /\ UNCHANGED <<base_path, execVars, childVars, pipeVars, hpc, hname, hin, hret, execCalls>>

HOut == {"hello", NL}
HErr == {BAD}

\* One call of any command handler.
NextHandlers ==
    \/ \E name \in ExecutorHandlers : \E input \in HandlerInputs(name) : HandlerCall(1, name, input)
    \/ \E name \in DirectHandlers : \E input \in HandlerInputs(name) : HandlerDirect(1, name, input)
    \/ HandlerReturn(1)
    \/ Child(1, MaxOutH, MaxErrH, HOut, HErr)
    \/ CommandExec(1)
    \/ Tick

SpecHandlers == Init /\ [][NextHandlers]_vars

\* Two calls of start_cod_debate at once.
NextDebates ==
    \/ \E h \in Invs : \E input \in HandlerInputs("start_cod_debate") : HandlerCall(h, "start_cod_debate", input)
    \/ \E h \in Invs : HandlerReturn(h)
    \/ \E h \in Invs : Child(h, MaxOutConc, MaxErrConc, HOut, HErr)
    \/ \E h \in Invs : CommandExec(h)
    \/ Tick

SpecDebates == Init /\ [][NextDebates]_vars

\* ------------------------------------------------------------ properties
\* The newline-split content of a byte stream: the pieces between newlines,
\* a last piece without a newline included, no empty piece after the last
\* newline.
RECURSIVE SplitFrom(_, _)
SplitFrom(bytes, cur) ==
    IF bytes = <<>> THEN (IF cur = <<>> THEN <<>> ELSE <<cur>>)
    ELSE IF Head(bytes) = NL THEN <<cur>> \o SplitFrom(Tail(bytes), <<>>)
    ELSE SplitFrom(Tail(bytes), Append(cur, Head(bytes)))
SplitLines(bytes) == SplitFrom(bytes, <<>>)

\* Slot i was spawned and reaped: its result comes from the exit status.
Reaped(i) == pc[i] = "done" /\ path[i] = "exit"
TheResult(i) == Results(i)[1]

\* C1: an invocation has returned exactly when it has produced one result,
\* it never produces more than one, the result is the last event of the
\* invocation (no callback follows it), and execute_command makes no callback.
C1_OneOutcomeAfterAllLines ==
    \A i \in Invs :
        /\ Len(Results(i)) <= 1
        /\ (pc[i] = "done") <=> (Len(Results(i)) = 1)
        /\ \A j \in 1..Len(trace[i]) : IsRet(trace[i][j]) => j = Len(trace[i])
        /\ kind[i] = "command" => Delivered(i) = <<>>

\* A streaming invocation that made two callbacks and then returned.
C1_Witness ==
    /\ kind[1] = "streaming"
    /\ pc[1] = "done"
    /\ Len(Delivered(1)) >= 2
    /\ IsRet(trace[1][Len(trace[1])])

\* C2: in a streaming run whose process was spawned, once it has returned
\* from a reaped process the callback has received every newline-split line
\* of the child's stdout, in order.
C2_AllLinesDelivered ==
    \A i \in Invs :
        (kind[i] = "streaming" /\ Reaped(i)) =>
            Delivered(i) = [k \in 1..Len(SplitLines(outAll[i])) |-> Lossy(SplitLines(outAll[i])[k])]

\* C3: execute_command on a spawned and reaped process returns Ok exactly on
\* a zero exit status, then with the text of stdout, and Err exactly on a
\* non-zero status, then with the text of stderr.
C3_CommandResultByStatus ==
    \A i \in Invs :
        (kind[i] = "command" /\ Reaped(i)) =>
            /\ (TheResult(i).tag = "Ok") <=> (ccode[i] = 0)
            /\ (TheResult(i).tag = "Err") <=> (ccode[i] # 0)
            /\ ccode[i] = 0 => TheResult(i).val = Lossy(outAll[i])
            /\ ccode[i] # 0 => TheResult(i).val = Lossy(errAll[i])

\* A non-zero exit of a child that wrote different text on stdout and stderr.
C3_Witness ==
    /\ kind[1] = "command"
    /\ Reaped(1)
    /\ ccode[1] # 0
    /\ outAll[1] # <<>>
    /\ errAll[1] # <<>>
    /\ Lossy(outAll[1]) # Lossy(errAll[1])
    /\ TheResult(1) = Err(Lossy(errAll[1]))

\* C4: execute_streaming_command returns only after its read loop has ended,
\* and on a reaped process the result is the fixed acknowledgement on a zero
\* exit status and Err with the text of stderr otherwise, whatever was
\* delivered to the callback.
C4_StreamingResultByStatus ==
    \A i \in Invs :
        kind[i] = "streaming" =>
            /\ Results(i) # <<>> /\ path[i] # "spawn_failed" => outReader[i] = "closed"
            /\ Reaped(i) /\ ccode[i] = 0 => TheResult(i) = Ok(<<"Command completed successfully">>)
            /\ Reaped(i) /\ ccode[i] # 0 => TheResult(i) = Err(Lossy(errAll[i]))

\* Three lines delivered, then exit status 1 with text on stderr.
C4_Witness ==
    /\ kind[1] = "streaming"
    /\ Reaped(1)
    /\ Len(Delivered(1)) = 3
    /\ ccode[1] = 1
    /\ errAll[1] # <<>>
    /\ TheResult(1) = Err(Lossy(errAll[1]))

\* The texts the executor puts before the OS error of a failed spawn / wait.
SpawnTexts == {"Failed to spawn command: ", "Failed to spawn streaming command: "}
WaitTexts == {"Failed to execute command: ", "Failed to complete streaming command: "}
\* Every error string a failed spawn can produce.
SpawnDiagnostics == {<<p, e>> : p \in SpawnTexts, e \in OsErrors}

\* C5 (as amended): a failed spawn returns at once, as the only event of the
\* invocation, an Err whose text is the "Failed to spawn" diagnostic of the
\* function called followed by the OS error; that text differs from every
\* wait-failure diagnostic; no process exists, wait_with_output is never
\* called and the callback is never invoked.
C5_SpawnFailureDiagnostic ==
    \A i \in Invs :
        path[i] = "spawn_failed" =>
            /\ pc[i] = "done"
            /\ Len(trace[i]) = 1
            /\ TheResult(i).tag = "Err"
            /\ Len(TheResult(i).val) = 2
            /\ TheResult(i).val[1] =
                  (IF kind[i] = "command" THEN "Failed to spawn command: "
                                          ELSE "Failed to spawn streaming command: ")
            /\ TheResult(i).val[2] \in OsErrors
            /\ TheResult(i).val[1] \notin WaitTexts
            /\ spawned[i] = 0
            /\ cstate[i] = "none"
            /\ waits[i] = 0
            /\ Delivered(i) = <<>>

\* A streaming call whose spawn failed.
C5_Witness ==
    /\ kind[1] = "streaming"
    /\ pc[1] = "done"
    /\ path[1] = "spawn_failed"
    /\ TheResult(1).val[1] = "Failed to spawn streaming command: "

\* C5 (as claimed): the above, and the error string of a failed spawn is
\* distinct from the stderr payload of a non-zero exit: no invocation that
\* ends in a non-zero exit returns one of the spawn-failure strings.
C5_DistinctFromStderrPayload ==
    /\ C5_SpawnFailureDiagnostic
    /\ \A i \in Invs :
          (Reaped(i) /\ ccode[i] # 0) => TheResult(i).val \notin SpawnDiagnostics

\* C6: once the read loop has seen the end of stdout while the child was
\* still running, the read end is dropped and wait_with_output has been
\* called; a result other than a wait failure exists only once the child has
\* exited, and it is the acknowledgement on a zero exit status and Err with
\* the text of stderr otherwise.
C6_EarlyCloseStillWaits ==
    \A i \in Invs :
        eofEarly[i] =>
            /\ pc[i] \in {"waiting", "done"}
            /\ outReader[i] = "closed"
            /\ waits[i] = 1
            /\ (Results(i) # <<>> /\ path[i] # "wait_failed") =>
                  /\ cstate[i] = "exited"
                  /\ path[i] = "exit"
                  /\ TheResult(i) = (IF ccode[i] = 0 THEN Ok(<<"Command completed successfully">>)
                                                     ELSE Err(Lossy(errAll[i])))

\* Stdout closed while the child ran, a line had been delivered, the child
\* then wrote to stderr and exited non-zero.
C6_Witness ==
    /\ eofEarly[1]
    /\ Reaped(1)
    /\ ccode[1] # 0
    /\ errAll[1] # <<>>
    /\ Delivered(1) # <<>>
    /\ TheResult(1) = Err(Lossy(errAll[1]))

\* C7: a handler that calls the executor calls it at most once, at most one
\* process is spawned for it, it returns at most once and only after the
\* executor has; an Err of execute_command is returned with the same string,
\* and no Ok value is returned after an Err.
C7_FailuresSurface ==
    \A h \in Invs :
        hname[h] \in ExecutorHandlers =>
            /\ execCalls[h] <= 1
            /\ spawned[h] <= 1
            /\ Len(hret[h]) <= 1
            /\ hret[h] # <<>> => pc[h] = "done" /\ hpc[h] = "done"
            /\ hpc[h] = "done" => Len(hret[h]) = 1
            /\ (hpc[h] = "done" /\ TheResult(h).tag = "Err") => hret[h] = <<TheResult(h)>>
            /\ (hret[h] # <<>> /\ hret[h][1].tag = "Ok") => TheResult(h).tag = "Ok"

\* get_system_health when `make` cannot be started.
C7_Witness ==
    /\ hname[1] = "get_system_health"
    /\ hpc[1] = "done"
    /\ path[1] = "spawn_failed"
    /\ hret[1] = <<Err(<<"Failed to spawn command: ", "No such file or directory (os error 2)">>)>>

\* What slot i returns on its own, from what its own child did.
AloneResults(i) ==
    CASE path[i] = "spawn_failed" ->
            {Err(<<p, e>>) : p \in (IF kind[i] = "command" THEN {"Failed to spawn command: "}
                                    ELSE {"Failed to spawn streaming command: "}), e \in OsErrors}
      [] path[i] = "wait_failed" ->
            {Err(<<p, e>>) : p \in (IF kind[i] = "command" THEN {"Failed to execute command: "}
                                    ELSE {"Failed to complete streaming command: "}), e \in OsErrors}
      [] path[i] = "exit" ->
            {IF ccode[i] # 0 THEN Err(Lossy(errAll[i]))
             ELSE IF kind[i] = "command" THEN Ok(Lossy(outAll[i]))
             ELSE Ok(<<"Command completed successfully">>)}
      [] OTHER -> {}

IsPrefix(p, q) == Len(p) <= Len(q) /\ \A k \in 1..Len(p) : p[k] = q[k]

\* C8: base_path keeps the value given at construction, and with two
\* invocations interleaved each one's callbacks are the lines of its own
\* child's stdout, in order (all of them once it has returned from a reaped
\* child), and its result is the one its own child's exit status, stdout and
\* stderr determine.
C8_Independent ==
    /\ base_path = "/root/ultramcp"
    /\ \A i \in Invs :
          /\ kind[i] # "streaming" => Delivered(i) = <<>>
          /\ IsPrefix(Delivered(i), SplitLines(outAll[i]))
          /\ (kind[i] = "streaming" /\ Reaped(i)) => Delivered(i) = SplitLines(outAll[i])
          /\ Len(Results(i)) <= 1
          /\ pc[i] = "done" => Len(Results(i)) = 1 /\ TheResult(i) \in AloneResults(i)

\* Two streaming invocations at once: the first has returned with its line
\* while the second is in its read loop with a line of its own delivered.
C8_Witness ==
    /\ kind[1] = "streaming" /\ kind[2] = "streaming"
    /\ Reaped(1)
    /\ Delivered(1) = << <<"a">> >>
    /\ pc[2] = "reading"
    /\ Delivered(2) = << <<>> >>

\* C9 (as claimed): every handler call that has returned made exactly one
\* executor invocation and succeeded exactly if that invocation did.
C9_OneInvocationEach ==
    \A h \in Invs :
        hpc[h] = "done" =>
            /\ execCalls[h] = 1
            /\ Len(Results(h)) = 1
            /\ hret[h][1].tag = TheResult(h).tag

\* C9 (as amended): the six handlers of ExecutorHandlers make exactly one
\* executor invocation and succeed exactly if it does; stop_local_model,
\* get_debate_results, get_cost_analytics and optimize_costs make none and
\* spawn nothing, the first three always succeed and optimize_costs fails
\* exactly on an optimization type it does not know.
C9_OneInvocationOrNone ==
    \A h \in Invs :
        hpc[h] = "done" =>
            /\ hname[h] \in ExecutorHandlers \cup DirectHandlers
            /\ Len(hret[h]) = 1
            /\ hname[h] \in ExecutorHandlers =>
                  /\ execCalls[h] = 1
                  /\ Len(Results(h)) = 1
                  /\ hret[h][1].tag = TheResult(h).tag
            /\ hname[h] \in DirectHandlers =>
                  /\ execCalls[h] = 0
                  /\ pc[h] = "idle"
                  /\ spawned[h] = 0
                  /\ (hret[h][1].tag = "Err") <=>
                        (/\ hname[h] = "optimize_costs"
                         /\ hin[h][1] \notin {"prefer_local", "batch_requests", "cache_results"})

\* optimize_costs failed on an unknown type without any executor invocation.
C9_Witness ==
    /\ hpc[1] = "done"
    /\ hname[1] = "optimize_costs"
    /\ execCalls[1] = 0
    /\ hret[1] = <<Err(<<"Unknown optimization type">>)>>

\* C10: two start_cod_debate calls that both succeeded returned different
\* debate IDs.
C10_UniqueDebateIds ==
    \A h1, h2 \in Invs :
        (/\ h1 # h2
         /\ hname[h1] = "start_cod_debate" /\ hname[h2] = "start_cod_debate"
         /\ hpc[h1] = "done" /\ hpc[h2] = "done"
         /\ hret[h1][1].tag = "Ok" /\ hret[h2][1].tag = "Ok")
        => hret[h1][1].val # hret[h2][1].val

\* ------------------------------------------------------------ a child that ends when drained
\* The arguments after the make target: none, or one that makes the child
\* report one more chunk on stderr.
ProgArgs == {<<>>, << <<"VERBOSE=1">> >>}

\* What the child writes to stderr before it exits: as much as the pipe
\* holds, and one chunk more for each argument after the target.
ProgErr(i) == PipeCap + (Len(argv[i]) - Len(CommandLine(<<"local-chat">>, <<>>)))

\* The child writes a chunk: at most MaxOutH chunks to stdout
\* and exactly ProgErr(i) chunks to stderr, in any order.  A write to a full
\* pipe blocks until the pipe is read.
ProgramWrite(i) ==
    \/ \E t \in HOut : ChildWriteStdout(i, t, MaxOutH)
    \/ \E t \in HErr : ChildWriteStderr(i, t, ProgErr(i))

\* The child exits once it has written all of its stderr; it never closes
\* its stdout before.
ProgramExit(i) ==
    /\ Len(errAll[i]) = ProgErr(i)
    /\ \E code \in ExitCodes : ChildExit(i, code)

\* One call of either method on such a child.
NextDrained ==
    \/ \E k \in Kinds, a \in ProgArgs : DirectCall(1, k, <<"local-chat">>, a)
    \/ CommandExec(1)
    \/ StreamingExec(1)
    \/ ProgramWrite(1)
    \/ ProgramExit(1)

\* The runtime polls a future that can make progress and the OS runs a child
\* that is not blocked.
SpecDrained == Init /\ [][NextDrained]_vars /\ WF_vars(NextDrained)

\* The child has stderr left to write, the stderr pipe is full, and it can
\* do nothing else.
BlockedOnStderr(i) ==
    /\ cstate[i] = "running"
    /\ Len(errAll[i]) < ProgErr(i)
    /\ Len(errPipe[i]) = PipeCap
    /\ ~ ENABLED ProgramWrite(i)

\* C11: on a child that exits after finitely many writes when its pipes are
\* drained, a call that has not returned can always make progress; in
\* particular execute_streaming_command is never in its read loop, waiting
\* for stdout to close, while the child is blocked writing to the full
\* stderr pipe.
C11_NeverStuck ==
    /\ pc[1] # "done" => ENABLED NextDrained
    /\ ~(/\ kind[1] = "streaming"
         /\ pc[1] = "reading"
         /\ outPipe[1] = <<>>
         /\ coutOpen[1]
         /\ BlockedOnStderr(1))

====
